---- MODULE Spec2Model ----
(***************************************************************************)
(* Model of the disc-checker NVDA add-on                                   *)
(* (addon/globalPlugins/diskHealthChecker.py): the single-flight trigger,  *)
(* the worker thread, the three-strategy elevated acquisition with its     *)
(* output polling, and the report parser.                                  *)
(***************************************************************************)
EXTENDS Integers, Sequences, FiniteSets, TLC

(* ----------------------------- bounds ---------------------------------- *)
\* threads that may call _trigger_check (hotkey script, menu handler)
NumCallers == 2
\* worker thread slots (threads the plugin could have alive at once)
NumSlots == 2
\* CrystalDiskInfo processes that run with no thread waiting for them
MaxTools == 1
\* checks a poll loop makes before its deadline passes
MaxPollChecks == 1

\* lines of a text handed to the parser
MaxLines == 3
\* tokens of a status text handed to the health parsers
MaxTokens == 3
MaxEntries == 2
MaxHeaderTokens == 6

Callers == 1..NumCallers
Slots == 1..NumSlots

(* ------------------------- report text samples ------------------------- *)
\* A text is a sequence of lines; None is the empty text ("" and None are
\* interchangeable wherever the code tests them: "text or None", "not text").
None == <<>>

LBanner == "CrystalDiskInfo 9.2.1"
LHdr1 == "(1) ModelA"
LHdr2 == "(2) ModelB"
LSel == "(1) ModelA : 500.1 GB"
LModel == "Model : DiskX"
LModelDup == "MODEL : DiskY"
LSerial == "Serial Number : S1"
LHealth45 == "Health Status : Caution (45 %)"
LHealth150 == "Health Status : Good 150%"
LTemp35 == "Temperature : 35 C (95 F)"
LTemp200 == "Temperature : 200 C"
LTempNeg == "Temperature : -45 C"
LJunk == "hello"

\* "CrystalDiskInfo" in raw, per line
HasBanner(line) == line = LBanner

\* _DISK_LIST_ENTRY_RE.match(line)
_DISK_LIST_ENTRY_RE(line) == line = LSel

\* _DISK_HEADER_RE.match(line): the pattern "(N) <label>" also matches a
\* disk-selector-list line, whose label then holds the colon and the rest
_DISK_HEADER_RE(line) == line \in {LHdr1, LHdr2, LSel}

\* groups 1 and 2 of _DISK_HEADER_RE, group 1 through _to_int, group 2 stripped
HeaderNumber(line) == IF line = LHdr2 THEN 2 ELSE 1
HeaderName(line) ==
    CASE line = LHdr1 -> "ModelA"
      [] line = LHdr2 -> "ModelB"
      [] line = LSel -> "ModelA : 500.1 GB"
      [] OTHER -> ""

\* the values of the health and temperature lines, as characters
VCaution45 == <<"C", "a", "u", "t", "i", "o", "n", " ", "(", "4", "5", " ", "%", ")">>
VGood150 == <<"G", "o", "o", "d", " ", "1", "5", "0", "%">>
V35C == <<"3", "5", " ", "C", " ", "(", "9", "5", " ", "F", ")">>
V200C == <<"2", "0", "0", " ", "C">>
VNeg45C == <<"-", "4", "5", " ", "C">>
VUnknown == <<"U", "n", "k", "n", "o", "w", "n">>

\* _KEY_VALUE_RE.match(line): <<key_display, value>>, or <<>> for no match
_KEY_VALUE_RE(line) ==
    CASE line = LModel -> <<"Model", "DiskX">>
      [] line = LModelDup -> <<"MODEL", "DiskY">>
      [] line = LSerial -> <<"Serial Number", "S1">>
      [] line = LHealth45 -> <<"Health Status", VCaution45>>
      [] line = LHealth150 -> <<"Health Status", VGood150>>
      [] line = LTemp35 -> <<"Temperature", V35C>>
      [] line = LTemp200 -> <<"Temperature", V200C>>
      [] line = LTempNeg -> <<"Temperature", VNeg45C>>
      [] OTHER -> <<>>

\* str.lower() on the keys above
Lower(key) ==
    CASE key \in {"Model", "MODEL"} -> "model"
      [] key = "Serial Number" -> "serial number"
      [] key = "Health Status" -> "health status"
      [] key = "Temperature" -> "temperature"
      [] OTHER -> key

\* the texts the output channels can hold
R1 == <<LBanner, LHdr1, LModel>>
R2 == <<LBanner, LHdr1, LHdr2>>
RSel == <<LBanner, LSel>>
Junk == <<LJunk>>
\* what the tool copies to the clipboard
ClipWrites == {R2, RSel}

\* file bytes: an encoding and the text it encodes; b"" is NoData
NoData == [enc |-> "utf-8", text |-> None]
D1 == [enc |-> "utf-8", text |-> R1]
D1Bom == [enc |-> "utf-8-sig", text |-> R1]
DJunk == [enc |-> "utf-8", text |-> Junk]
\* what the tool writes to DiskInfo.txt (DJunk: a report not yet complete)
FileWrites == {D1, DJunk}

\* _decode_text_bytes: the byte-order mark is dropped, the text is kept
_decode_text_bytes(data) == data.text

(* ------------------------ text extraction utilities -------------------- *)
\* A status text is a sequence of characters, so that lower(), strip(), the
\* substring tests and the regular-expression searches are computed.
\* the tokens status texts are made of
TGood == <<"G", "o", "o", "d">>
TCaution == <<"C", "a", "u", "t", "i", "o", "n">>
TBad == <<"B", "A", "D">>
T45 == <<"4", "5">>
T150 == <<"1", "5", "0">>
TPct == <<"%">>
TSp == <<" ">>
Tokens == {TGood, TCaution, TBad, T45, T150, TPct, TSp}

\* an absent integer (Optional[int] None); the integers the parsers return
\* are never negative
NoInt == -1

_HEALTH_GOOD_KEYWORDS ==
    {<<"g", "o", "o", "d">>,
     <<"h", "e", "a", "l", "t", "h", "y">>,
     <<"o", "k">>}
_HEALTH_WARN_KEYWORDS ==
    {<<"c", "a", "u", "t", "i", "o", "n">>,
     <<"w", "a", "r", "n", "i", "n", "g">>,
     <<"d", "e", "g", "r", "a", "d", "e", "d">>}
_HEALTH_BAD_KEYWORDS ==
    {<<"b", "a", "d">>,
     <<"f", "a", "i", "l", "e", "d">>,
     <<"c", "r", "i", "t", "i", "c", "a", "l">>,
     <<"e", "r", "r", "o", "r">>}

\* str.lower() on the characters of the tokens
LowerChar(c) ==
    CASE c = "G" -> "g" [] c = "C" -> "c" [] c = "B" -> "b"
      [] c = "A" -> "a" [] c = "D" -> "d" [] c = "U" -> "u"
      [] c = "F" -> "f" [] OTHER -> c

lower(text) == [i \in 1..Len(text) |-> LowerChar(text[i])]

IsSpace(c) == c = " "

IsDigit(c) == c \in {"0", "1", "2", "3", "4", "5", "6", "7", "8", "9"}

DigitValue(c) ==
    CASE c = "0" -> 0 [] c = "1" -> 1 [] c = "2" -> 2 [] c = "3" -> 3
      [] c = "4" -> 4 [] c = "5" -> 5 [] c = "6" -> 6 [] c = "7" -> 7
      [] c = "8" -> 8 [] c = "9" -> 9

\* str.strip()
strip(text) ==
    LET kept == {i \in 1..Len(text) : ~IsSpace(text[i])} IN
    IF kept = {} THEN <<>>
    ELSE SubSeq(text, CHOOSE i \in kept : \A j \in kept : i <= j,
                      CHOOSE i \in kept : \A j \in kept : i >= j)

\* keyword in lowered
Contains(text, keyword) ==
    \E i \in 1..(Len(text) - Len(keyword) + 1) :
       SubSeq(text, i, i + Len(keyword) - 1) = keyword

\* any(keyword in lowered for keyword in keywords)
AnyKeyword(lowered, keywords) == \E keyword \in keywords : Contains(lowered, keyword)

RECURSIVE IntOf(_)
\* int() of a string of digits
IntOf(digits) ==
    IF digits = <<>> THEN 0
    ELSE 10 * IntOf(SubSeq(digits, 1, Len(digits) - 1)) + DigitValue(digits[Len(digits)])

\* _to_int of a string of digits (what _PERCENT_RE captures)
_to_int(digits) == IF digits = <<>> THEN NoInt ELSE IntOf(digits)

\* _PERCENT_RE matched at position i with n digits: n digits, any
\* whitespace, then the percent sign
PercentAt(text, i, n) ==
    /\ i + n - 1 <= Len(text)
    /\ \A j \in i..(i + n - 1) : IsDigit(text[j])
    /\ \E p \in (i + n)..Len(text) :
          /\ text[p] = "%"
          /\ \A j \in (i + n)..(p - 1) : IsSpace(text[j])

\* _PERCENT_RE.search(text): group 1 of the leftmost match, the longest of
\* one to three digits that lets the rest match; <<>> for no match
_PERCENT_RE(text) ==
    LET starts == {i \in 1..Len(text) : \E n \in 1..3 : PercentAt(text, i, n)} IN
    IF starts = {} THEN <<>>
    ELSE LET i == CHOOSE a \in starts : \A b \in starts : a <= b
             ns == {n \in 1..3 : PercentAt(text, i, n)}
             n == CHOOSE a \in ns : \A b \in ns : a >= b
         IN SubSeq(text, i, i + n - 1)

\* _clamp_percent of a present value
_clamp_percent(value) ==
    IF value = NoInt THEN NoInt
    ELSE IF value < 0 THEN 0 ELSE IF value > 100 THEN 100 ELSE value

\* _parse_health_percent
_parse_health_percent(status_text) ==
    LET text == strip(status_text)
        lowered == lower(text)
    IN
    IF text = <<>> THEN NoInt
    ELSE IF _PERCENT_RE(text) # <<>> THEN _clamp_percent(_to_int(_PERCENT_RE(text)))
    ELSE IF AnyKeyword(lowered, _HEALTH_BAD_KEYWORDS) THEN 0
    ELSE IF AnyKeyword(lowered, _HEALTH_WARN_KEYWORDS) THEN 50
    ELSE IF AnyKeyword(lowered, _HEALTH_GOOD_KEYWORDS) THEN 100
    ELSE NoInt

\* _parse_health_code with the warn keywords tested before the bad keywords
HealthCodeWarnFirst(status_text, health_percent) ==
    LET lowered == lower(strip(status_text)) IN
    IF lowered # <<>> /\ AnyKeyword(lowered, _HEALTH_WARN_KEYWORDS) THEN 1
    ELSE IF lowered # <<>> /\ AnyKeyword(lowered, _HEALTH_BAD_KEYWORDS) THEN 2
    ELSE IF lowered # <<>> /\ AnyKeyword(lowered, _HEALTH_GOOD_KEYWORDS) THEN 0
    ELSE IF health_percent = NoInt THEN NoInt
    ELSE IF health_percent >= 80 THEN 0 ELSE 1

\* _parse_health_code: 2 is BAD, 1 is WARNING, 0 is GOOD
_parse_health_code(status_text, health_percent) ==
    LET lowered == lower(strip(status_text)) IN
    IF lowered # <<>> /\ AnyKeyword(lowered, _HEALTH_BAD_KEYWORDS) THEN 2
    ELSE IF lowered # <<>> /\ AnyKeyword(lowered, _HEALTH_WARN_KEYWORDS) THEN 1
    ELSE IF lowered # <<>> /\ AnyKeyword(lowered, _HEALTH_GOOD_KEYWORDS) THEN 0
    ELSE IF health_percent = NoInt THEN NoInt
    ELSE IF health_percent >= 80 THEN 0 ELSE 1

\* an absent temperature (Optional[int] None): below every temperature
NoTemp == -274

\* a word character of \b, among the characters of the sample values
IsWord(c) == c \notin {" ", "%", "(", ")", "-", ":", "."}

\* a run of n characters at position i that "-?\d+" can match
SignedDigitsAt(text, i, n) ==
    /\ n >= 1
    /\ i + n - 1 <= Len(text)
    /\ \/ \A j \in i..(i + n - 1) : IsDigit(text[j])
       \/ /\ n >= 2
          /\ text[i] = "-"
          /\ \A j \in (i + 1)..(i + n - 1) : IsDigit(text[j])

\* the digits without their leading zeros
Significant(digits) ==
    LET kept == {i \in 1..Len(digits) : digits[i] # "0"} IN
    IF kept = {} THEN <<>>
    ELSE SubSeq(digits, CHOOSE i \in kept : \A j \in kept : i <= j, Len(digits))

\* int() of a string of digits of any length: a number of more than nine
\* digits is kept as the greatest number of nine digits, which is on the
\* same side of every bound a temperature is compared with
LongIntOf(digits) ==
    IF Len(Significant(digits)) > 9 THEN 999999999 ELSE IntOf(Significant(digits))

\* int() of what "-?\d+" matched
SignedIntOf(digits) ==
    IF digits[1] = "-" THEN 0 - LongIntOf(SubSeq(digits, 2, Len(digits)))
    ELSE LongIntOf(digits)

\* _INT_RE.search(text): group 0 of the leftmost, longest match; <<>> for
\* no match
_INT_RE(text) ==
    LET starts == {i \in 1..Len(text) : \E n \in 1..Len(text) : SignedDigitsAt(text, i, n)} IN
    IF starts = {} THEN <<>>
    ELSE LET i == CHOOSE a \in starts : \A b \in starts : a <= b
             ns == {n \in 1..Len(text) : SignedDigitsAt(text, i, n)}
             n == CHOOSE a \in ns : \A b \in ns : a >= b
         IN SubSeq(text, i, i + n - 1)

\* _TEMP_RE matched at position i with a number of n characters: the number,
\* any whitespace, the letter C in either case, then a word boundary
TempAt(text, i, n) ==
    /\ SignedDigitsAt(text, i, n)
    /\ \E p \in (i + n)..Len(text) :
          /\ text[p] \in {"C", "c"}
          /\ \A j \in (i + n)..(p - 1) : IsSpace(text[j])
          /\ p = Len(text) \/ ~IsWord(text[p + 1])

\* _TEMP_RE.search(text): group 1 of the leftmost match, the longest number
\* that lets the rest match; <<>> for no match
_TEMP_RE(text) ==
    LET starts == {i \in 1..Len(text) : \E n \in 1..Len(text) : TempAt(text, i, n)} IN
    IF starts = {} THEN <<>>
    ELSE LET i == CHOOSE a \in starts : \A b \in starts : a <= b
             ns == {n \in 1..Len(text) : TempAt(text, i, n)}
             n == CHOOSE a \in ns : \A b \in ns : a >= b
         IN SubSeq(text, i, i + n - 1)

\* _parse_temperature that clamps a value out of the range into the range
ParseTemperatureClamped(value) ==
    LET text == strip(value)
        number == IF _TEMP_RE(text) # <<>> THEN _TEMP_RE(text) ELSE _INT_RE(text)
    IN
    IF text = <<>> \/ number = <<>> THEN NoTemp
    ELSE IF SignedIntOf(number) < -40 THEN -40
    ELSE IF SignedIntOf(number) > 150 THEN 150
    ELSE SignedIntOf(number)

\* _parse_temperature; _to_int of the text is int() of the leftmost signed
\* run of digits
_parse_temperature(value) ==
    LET text == strip(value)
        number == IF _TEMP_RE(text) # <<>> THEN _TEMP_RE(text) ELSE _INT_RE(text)
    IN
    IF text = <<>> \/ number = <<>> THEN NoTemp
    ELSE IF -40 <= SignedIntOf(number) /\ SignedIntOf(number) <= 150
    THEN SignedIntOf(number)
    ELSE NoTemp

(* ---------------------------- report parser ---------------------------- *)
\* _looks_like_crystaldiskinfo_report
_looks_like_crystaldiskinfo_report(text) ==
    /\ text # None
    /\ \E i \in 1..Len(text) : HasBanner(text[i])
    /\ \E i \in 1..Len(text) : _DISK_HEADER_RE(text[i])

RECURSIVE SplitFrom(_, _, _, _)
SplitFrom(text, i, sections, current) ==
    IF i > Len(text)
    THEN IF current # <<>> THEN sections \o current ELSE sections
    ELSE LET line == text[i] IN
         IF _DISK_LIST_ENTRY_RE(line)
         THEN SplitFrom(text, i + 1, sections, current)
         ELSE IF _DISK_HEADER_RE(line)
         THEN SplitFrom(text, i + 1,
                        IF current # <<>> THEN sections \o current ELSE sections,
                        << [Number |-> HeaderNumber(line),
                            HeaderName |-> HeaderName(line),
                            Lines |-> <<>>] >>)
         ELSE IF current # <<>>
         THEN SplitFrom(text, i + 1, sections,
                        << [current[1] EXCEPT !.Lines = Append(@, line)] >>)
         ELSE SplitFrom(text, i + 1, sections, current)

RECURSIVE SplitHeaderFirstFrom(_, _, _, _)
\* SplitFrom with the header pattern tested before the selector-list pattern
SplitHeaderFirstFrom(text, i, sections, current) ==
    IF i > Len(text)
    THEN IF current # <<>> THEN sections \o current ELSE sections
    ELSE LET line == text[i] IN
         IF _DISK_HEADER_RE(line)
         THEN SplitHeaderFirstFrom(text, i + 1,
                        IF current # <<>> THEN sections \o current ELSE sections,
                        << [Number |-> HeaderNumber(line),
                            HeaderName |-> HeaderName(line),
                            Lines |-> <<>>] >>)
         ELSE IF _DISK_LIST_ENTRY_RE(line)
         THEN SplitHeaderFirstFrom(text, i + 1, sections, current)
         ELSE IF current # <<>>
         THEN SplitHeaderFirstFrom(text, i + 1, sections,
                        << [current[1] EXCEPT !.Lines = Append(@, line)] >>)
         ELSE SplitHeaderFirstFrom(text, i + 1, sections, current)

\* _split_disk_sections with the header pattern tested first
SplitHeaderFirst(text) == SplitHeaderFirstFrom(text, 1, <<>>, <<>>)

\* _split_disk_sections; "current" is <<>> for None, else a one-element tuple
_split_disk_sections(text) == SplitFrom(text, 1, <<>>, <<>>)

RECURSIVE PropsFrom(_, _, _, _)
\* the loop of _parse_section_properties from line i on: properties is the
\* dict (a function on the lowered keys), ordered the list of pairs
PropsFrom(lines, i, properties, ordered) ==
    IF i > Len(lines) THEN <<properties, ordered>>
    ELSE LET m == _KEY_VALUE_RE(lines[i]) IN
         IF m # <<>> /\ Lower(m[1]) \notin DOMAIN properties
         THEN PropsFrom(lines, i + 1, (Lower(m[1]) :> m[2]) @@ properties,
                        Append(ordered, m))
         ELSE PropsFrom(lines, i + 1, properties, ordered)

\* _parse_section_properties that reads the lines from the last to the first
ParsePropertiesBackwards(lines) ==
    PropsFrom([i \in 1..Len(lines) |-> lines[Len(lines) + 1 - i]], 1, <<>>, <<>>)

\* _parse_section_properties: <<properties, ordered>>
_parse_section_properties(lines) == PropsFrom(lines, 1, <<>>, <<>>)

\* properties.get(key): "" for a missing key
PropertyGet(properties, key) ==
    IF key \in DOMAIN properties THEN properties[key] ELSE ""

\* _first_non_empty of two values
_first_non_empty(a, b) == IF a # "" THEN a ELSE b

\* properties.get(key) of a key whose value is a text of characters: <<>>
\* for a missing key
PropertyText(properties, key) ==
    IF key \in DOMAIN properties THEN properties[key] ELSE <<>>

\* _first_non_empty of two texts of characters
FirstNonEmptyText(a, b) == IF strip(a) # <<>> THEN strip(a) ELSE strip(b)

\* the wear of _build_entry_from_section
WearOf(health_percent) ==
    IF health_percent = NoInt THEN NoInt
    ELSE LET w == 100 - health_percent IN
         IF w > 100 THEN 100 ELSE IF w < 0 THEN 0 ELSE w

\* _build_entry_from_section
_build_entry_from_section(section) ==
    LET properties == _parse_section_properties(section.Lines)[1]
        ordered_properties == _parse_section_properties(section.Lines)[2]
        health_status_raw == FirstNonEmptyText(PropertyText(properties, "health status"), VUnknown)
        health_percent == _parse_health_percent(health_status_raw)
    IN
    [Number |-> section.Number,
     FriendlyName |-> _first_non_empty(PropertyGet(properties, "model"), section.HeaderName),
     HealthStatus |-> health_status_raw,
     HealthPercent |-> health_percent,
     Temperature |-> _parse_temperature(PropertyText(properties, "temperature")),
     Wear |-> WearOf(health_percent),
     CdiProperties |-> ordered_properties,
     _healthCode |-> _parse_health_code(health_status_raw, health_percent)]

RECURSIVE EntriesFrom(_, _)
EntriesFrom(sections, i) ==
    IF i > Len(sections) THEN <<>>
    ELSE LET entry == _build_entry_from_section(sections[i]) IN
         IF entry.FriendlyName # ""
         THEN <<entry>> \o EntriesFrom(sections, i + 1)
         ELSE EntriesFrom(sections, i + 1)

\* _parse_crystaldiskinfo_entries
_parse_crystaldiskinfo_entries(text) == EntriesFrom(_split_disk_sections(text), 1)

\* the texts the output file and the clipboard can hold
ChannelTexts ==
    {None, Junk, R2} \cup ClipWrites
       \cup {_decode_text_bytes(d) : d \in FileWrites \cup {D1Bom}}

\* _parse_crystaldiskinfo_entries on each of these texts, computed once
ParsedChannelTexts ==
    {<<text, _parse_crystaldiskinfo_entries(text)>> : text \in ChannelTexts}

\* _parse_crystaldiskinfo_entries(output_text) for the text a poll returned
ParsedOutput(output_text) ==
    (CHOOSE parsed \in ParsedChannelTexts : parsed[1] = output_text)[2]

(* ------------------------- header lines, by character ------------------- *)
\* str.rstrip()
rstrip(text) ==
    LET kept == {i \in 1..Len(text) : ~IsSpace(text[i])} IN
    IF kept = {} THEN <<>>
    ELSE SubSeq(text, 1, CHOOSE i \in kept : \A j \in kept : i >= j)

\* the common start of the two numbered-line patterns, "^\s*\(\d{1,3}\)":
\* <<index of the first digit, index of the closing parenthesis>>, or <<>>
NumberedPrefix(line) ==
    LET kept == {i \in 1..Len(line) : ~IsSpace(line[i])} IN
    IF kept = {} THEN <<>>
    ELSE LET p == CHOOSE i \in kept : \A j \in kept : i <= j
             ns == {n \in 1..3 :
                      /\ p + n + 1 <= Len(line)
                      /\ \A j \in (p + 1)..(p + n) : IsDigit(line[j])
                      /\ line[p + n + 1] = ")"}
         IN IF line[p] # "(" \/ ns = {} THEN <<>>
            ELSE <<p + 1, p + 1 + CHOOSE n \in ns : TRUE>>

\* the lengths the "\s+" after the closing parenthesis at q can take
SpacesAfter(line, q) ==
    {b \in 1..(Len(line) - q) : \A j \in (q + 1)..(q + b) : IsSpace(line[j])}

\* _DISK_LIST_ENTRY_RE.match(line)
ListEntryMatch(line) ==
    LET m == NumberedPrefix(line) IN
    /\ m # <<>>
    /\ \E b \in SpacesAfter(line, m[2]) :
          \E c \in (m[2] + b + 2)..(Len(line) - 1) :
             line[c] = ":" /\ IsSpace(line[c + 1])

\* _DISK_HEADER_RE.match(line): <<group 1, group 2>>, or <<>> for no match.
\* "\s+" takes the longest run that leaves a character for "(.+?)", which
\* takes the fewest characters that leave only whitespace before the end.
HeaderMatch(line) ==
    LET m == NumberedPrefix(line) IN
    IF m = <<>> THEN <<>>
    ELSE LET bs == {b \in SpacesAfter(line, m[2]) : m[2] + b + 1 <= Len(line)} IN
         IF bs = {} THEN <<>>
         ELSE LET b == CHOOSE x \in bs : \A y \in bs : x >= y
                  g == m[2] + b + 1
                  es == {e \in g..Len(line) :
                            \A j \in (e + 1)..Len(line) : IsSpace(line[j])}
                  e == CHOOSE x \in es : \A y \in es : x <= y
              IN <<SubSeq(line, m[1], m[2] - 1), SubSeq(line, g, e)>>

\* SectionHeader that matches the raw line, without rstrip()
SectionHeaderUnstripped(raw_line) ==
    LET line == raw_line
        header_match == HeaderMatch(line)
    IN
    IF ListEntryMatch(line) \/ header_match = <<>>
    THEN [opened |-> FALSE, Number |-> NoInt, HeaderName |-> <<>>,
          FriendlyName |-> <<>>]
    ELSE [opened |-> TRUE,
          Number |-> _to_int(header_match[1]),
          HeaderName |-> strip(header_match[2]),
          FriendlyName |-> FirstNonEmptyText(<<>>, strip(header_match[2]))]

\* one line of the loop of _split_disk_sections (lines 582-594): whether it
\* opens a section, with the section's Number and HeaderName, and the
\* name _build_entry_from_section resolves for a section without a model
\* property (line 609)
SectionHeader(raw_line) ==
    LET line == rstrip(raw_line)
        header_match == HeaderMatch(line)
    IN
    IF ListEntryMatch(line) \/ header_match = <<>>
    THEN [opened |-> FALSE, Number |-> NoInt, HeaderName |-> <<>>,
          FriendlyName |-> <<>>]
    ELSE [opened |-> TRUE,
          Number |-> _to_int(header_match[1]),
          HeaderName |-> strip(header_match[2]),
          FriendlyName |-> FirstNonEmptyText(<<>>, strip(header_match[2]))]

(* ------------------------------- report -------------------------------- *)
\* _is_bad_health with the temperature test "above 60"
IsBadHealthAbove60(entry) ==
    \/ entry.HealthPercent # NoInt /\ entry.HealthPercent < 80
    \/ entry._healthCode \in {1, 2}
    \/ entry.Temperature # NoTemp /\ entry.Temperature > 60

\* _is_bad_health
_is_bad_health(entry) ==
    \/ entry.HealthPercent # NoInt /\ entry.HealthPercent < 80
    \/ entry._healthCode \in {1, 2}
    \/ entry.Temperature # NoTemp /\ entry.Temperature >= 60

\* an entry put into a list sorted by Number, after the entries that are
\* not greater (sorted() is stable)
Inserted(ordered, entry) ==
    LET before == {i \in 1..Len(ordered) : ordered[i].Number <= entry.Number}
        k == Cardinality(before)
    IN SubSeq(ordered, 1, k) \o <<entry>> \o SubSeq(ordered, k + 1, Len(ordered))

RECURSIVE SortedFrom(_, _, _)
\* sorted(entries, key=Number), the entries from i on added to ordered
SortedFrom(entries, i, ordered) ==
    IF i > Len(entries) THEN ordered
    ELSE SortedFrom(entries, i + 1, Inserted(ordered, entries[i]))

RECURSIVE ReportFrom(_, _, _, _)
\* the loop of _build_report from entry i on: <<warnings, lines>>
ReportFrom(ordered, i, warnings, lines) ==
    IF i > Len(ordered) THEN <<warnings, lines>>
    ELSE LET entry == ordered[i]
             alert == _is_bad_health(entry)
         IN ReportFrom(ordered, i + 1,
                       IF alert THEN warnings + 1 ELSE warnings,
                       Append(lines,
                              [state_label |-> IF alert THEN "ALERT" ELSE "OK",
                               number |-> entry.Number,
                               name |-> entry.FriendlyName,
                               health_percent |-> entry.HealthPercent,
                               temperature |-> entry.Temperature,
                               properties |-> entry.CdiProperties]))

\* _build_report: the summary with its three counts, the details as the
\* list of the blocks
_build_report(entries) ==
    IF entries = <<>>
    THEN [summary |-> [text |-> "No physical disks were detected.",
                       Disks |-> 0, Healthy |-> 0, Alerts |-> 0],
          details |-> <<>>]
    ELSE LET done == ReportFrom(SortedFrom(entries, 1, <<>>), 1, 0, <<>>)
             warnings == done[1]
         IN [summary |-> [text |-> "Disks: {}. Healthy: {}. Alerts: {}.",
                          Disks |-> Len(entries),
                          Healthy |-> Len(entries) - warnings,
                          Alerts |-> warnings],
             details |-> done[2]]

(* ------------------------------- state --------------------------------- *)
VARIABLES
    checking,   \* GlobalPlugin._checking, read and written under _state_lock
    caller,     \* position of each thread inside _trigger_check
    ui,         \* the last message handed to ui.message / _present_report
    wk,         \* the worker threads: position and locals of _worker
    file,       \* DiskInfo.txt: whether it exists and its bytes
    clipboard,  \* the clipboard text (None when it holds no text)
    tools,      \* CrystalDiskInfo processes running that no thread waits for
    tempdir,    \* the temporary script files that exist, named by the strategy
                \* that created them; a script left behind is followed until
                \* the next script is created (nothing touches it again)
    fresh,      \* DiskInfo.txt was written after the acquisition took its snapshot
    call,       \* a parser function called on its own: its name and arguments
    ret         \* what that call returned

vars == <<checking, caller, ui, wk, file, clipboard, tools, tempdir, fresh, call, ret>>

\* launch_methods of _run_crystaldiskinfo_dump
launch_methods == <<"vbs-hidden", "scheduled-task-hidden", "direct-elevated">>
NumMethods == 3
Methods == 1..NumMethods

NoFile == [exists |-> FALSE, data |-> NoData]

MsgAlreadyRunning == "Disk health check is already running."
MsgChecking == "Checking disk health..."
MsgCancelled == "Elevation was cancelled. Disk health check was aborted."
MsgFailed == "Disk health check failed. See NVDA log for details."
MsgReport == "Disk Health Report"

ErrMissing == "CrystalDiskInfo executable was not found in the add-on package."
ErrUac == "UAC cancelled by user"
ErrExhausted == "CrystalDiskInfo failed: CrystalDiskInfo did not produce readable output."
ErrNoData == "CrystalDiskInfo did not return readable disk data."

\* "UAC" in error_text.upper()
ContainsUAC(error) == error = ErrUac

\* no parser call made on its own, and nothing returned
NoCall ==
    [fn |-> "none", kind |-> "none", text |-> None, status |-> <<>>,
     percent |-> NoInt, entries |-> <<>>, line |-> <<>>]
NoRet ==
    [sections |-> <<>>, entries |-> <<>>, properties |-> <<>>,
     ordered |-> <<>>, percent |-> NoInt, code |-> NoInt,
     temperature |-> NoTemp, report |-> <<>>, header |-> <<>>]

\* a thread slot with no thread, and the locals a new thread starts with
IdleWorker ==
    [pc |-> "idle", idx |-> 1,
     previous_data |-> NoData, previous_clipboard_text |-> None,
     script_path |-> 0, script_made |-> 0,
     exc |-> "none", exit_code |-> 0, checks |-> 0,
     output_text |-> None, launch_issues |-> <<>>,
     error |-> "", entries |-> <<>>, outcome |-> "none",
     logged |-> <<>>, seconds |-> 0, hProcess |-> 0, closes |-> 0,
     \* history of the acquisition
     launched |-> <<>>, polled |-> {}, uac |-> 0, src |-> "none"]

Init ==
    /\ checking = FALSE
    /\ caller = [c \in Callers |-> "ready"]
    /\ ui = ""
    /\ wk = [w \in Slots |-> IdleWorker]
    /\ file \in {NoFile, [exists |-> TRUE, data |-> D1Bom]}
    /\ clipboard \in {None, R2}
    /\ tools = 0
    /\ tempdir = {}
    /\ fresh = FALSE
    /\ call = NoCall
    /\ ret = NoRet

InFlight == {w \in Slots : wk[w].pc # "idle"}

(* ------------------------------ trigger --------------------------------- *)
\* TryAcquire without the test of the flag
TryAcquireUnguarded(flag) == TRUE

\* _trigger_check, the locked section: acquisition is granted iff the flag is idle
TryAcquire(flag) == ~flag

\* _trigger_check lines 784-788
TriggerCheck(c) ==
    /\ caller[c] = "ready"
    /\ IF TryAcquire(checking)
       THEN /\ checking' = TRUE
            /\ caller' = [caller EXCEPT ![c] = "granted"]
            /\ UNCHANGED ui
       ELSE /\ ui' = MsgAlreadyRunning
            /\ UNCHANGED <<checking, caller>>
    /\ UNCHANGED <<wk, file, clipboard, tools, tempdir, fresh, call, ret>>

\* _trigger_check lines 789-790: Thread.start() either starts _worker or
\* raises RuntimeError("can't start new thread")
TriggerStart(c) ==
    /\ caller[c] = "granted"
    /\ ui' = MsgChecking
    /\ caller' = [caller EXCEPT ![c] = "ready"]
    /\ \E started \in BOOLEAN :
          IF started
          THEN /\ \E w \in Slots : wk[w].pc = "idle"
               /\ LET w == CHOOSE v \in Slots :
                             /\ wk[v].pc = "idle"
                             /\ \A u \in Slots : wk[u].pc = "idle" => v <= u
                  IN wk' = [wk EXCEPT ![w] = [IdleWorker EXCEPT !.pc = "collect"]]
          ELSE UNCHANGED wk
    /\ UNCHANGED <<checking, file, clipboard, tools, tempdir, fresh, call, ret>>

(* --------------------------- acquisition -------------------------------- *)
SetWorker(w, r) == wk' = [wk EXCEPT ![w] = r]

\* _read_clipboard_text: the stripped clipboard text, or None when the
\* clipboard could not be opened or holds no text
_read_clipboard_text(opened) == IF opened THEN clipboard ELSE None

\* output_path.read_bytes(); NoData stands for OSError as well as for b"",
\* both of which make _read_diskinfo_text_if_ready return None
read_bytes(readable) == IF file.exists /\ readable THEN file.data ELSE NoData

\* _collect_disk_entries lines 657-664: the dependency checks
Collect(w) ==
    /\ wk[w].pc = "collect"
    /\ \E present \in BOOLEAN :
          IF present
          THEN SetWorker(w, [wk[w] EXCEPT !.pc = "snapshot"])
          ELSE SetWorker(w, [wk[w] EXCEPT !.pc = "handle", !.error = ErrMissing])
    /\ UNCHANGED <<checking, caller, ui, file, clipboard, tools, tempdir, fresh, call, ret>>

\* previous_data after lines 510-520, given what the read and the unlink did
SnapshotData(readable, unlinked) ==
    IF ~file.exists THEN NoData
    ELSE IF unlinked THEN NoData
    ELSE IF readable THEN file.data
    ELSE NoData

\* _run_crystaldiskinfo_dump lines 509-522: the baselines
Snapshot(w) ==
    /\ wk[w].pc = "snapshot"
    /\ \E readable \in BOOLEAN, unlinked \in BOOLEAN, opened \in BOOLEAN :
          /\ file' = IF file.exists /\ unlinked THEN NoFile ELSE file
          /\ SetWorker(w, [wk[w] EXCEPT
                !.pc = "launch", !.idx = 1,
                !.previous_data = SnapshotData(readable, unlinked),
                !.previous_clipboard_text = _read_clipboard_text(opened)])
    /\ fresh' = FALSE
    /\ UNCHANGED <<checking, caller, ui, clipboard, tools, tempdir, call, ret>>

\* method_runner() entered (line 533); for the two script strategies the
\* temporary script is created and written (lines 319-334, 354-363)
Launch(w) ==
    LET k == wk[w].idx
        r == [wk[w] EXCEPT !.launched = Append(@, k),
                           !.script_path = 0, !.script_made = 0,
                           !.exc = "none", !.exit_code = 0]
    IN
    /\ wk[w].pc = "launch"
    /\ IF k = 3
       THEN /\ SetWorker(w, [r EXCEPT !.pc = "elevate"])
            /\ UNCHANGED tempdir
       ELSE \E res \in {"ok", "create-permission", "create-oserror",
                        "write-error", "close-error"} :
              CASE res = "ok" ->
                     /\ tempdir' = {k}
                     /\ SetWorker(w, [r EXCEPT !.pc = "elevate",
                                        !.script_path = k, !.script_made = k])
                [] res = "write-error" ->
                     \* temp_script.write raises: script_path is still ""
                     /\ tempdir' = {k}
                     /\ SetWorker(w, [r EXCEPT !.pc = "cleanup",
                                        !.script_made = k,
                                        !.exc = "UnicodeEncodeError"])
                [] res = "close-error" ->
                     \* the flush on leaving the with block raises
                     /\ tempdir' = {k}
                     /\ SetWorker(w, [r EXCEPT !.pc = "cleanup",
                                        !.script_path = k, !.script_made = k,
                                        !.exc = "OSError"])
                [] res = "create-permission" ->
                     \* the temporary directory is not writable
                     /\ UNCHANGED tempdir
                     /\ SetWorker(w, [r EXCEPT !.pc = "cleanup",
                                        !.exc = "PermissionError"])
                [] res = "create-oserror" ->
                     /\ UNCHANGED tempdir
                     /\ SetWorker(w, [r EXCEPT !.pc = "cleanup",
                                        !.exc = "OSError"])
    /\ UNCHANGED <<checking, caller, ui, file, clipboard, tools, fresh, call, ret>>

\* _run_elevated_command lines 290-297: ShellExecuteExW with verb "runas"
Elevate(w) ==
    LET r == wk[w]
        k == wk[w].idx
    IN
    /\ r.pc = "elevate"
    /\ \E res \in {"cancelled", "error", "nohandle", "started"} :
         CASE res = "cancelled" ->
                SetWorker(w, [r EXCEPT !.pc = "cleanup",
                                !.exc = "PermissionError", !.uac = k])
           [] res = "error" ->
                SetWorker(w, [r EXCEPT !.pc = "cleanup", !.exc = "RuntimeError"])
           [] res = "nohandle" ->
                SetWorker(w, [r EXCEPT !.pc = "cleanup", !.exc = "RuntimeError"])
           [] res = "started" ->
                \* info.hProcess holds the handle of the new process
                SetWorker(w, [r EXCEPT !.pc = "wait", !.hProcess = 1])
    /\ UNCHANGED <<checking, caller, ui, file, clipboard, tools, tempdir, fresh, call, ret>>

\* what a CrystalDiskInfo /CopyExit run leaves behind: DiskInfo.txt written,
\* or its report copied to the clipboard, or neither
ToolOutput ==
    \/ UNCHANGED <<file, clipboard, fresh>>
    \/ /\ \E d \in FileWrites : file' = [exists |-> TRUE, data |-> d]
       /\ fresh' = TRUE
       /\ UNCHANGED clipboard
    \/ /\ \E t \in ClipWrites : clipboard' = t
       /\ UNCHANGED <<file, fresh>>

\* Closed that releases the handle only when the exit code was read
ClosedOnSuccess(r) ==
    IF r.exc = "none" THEN [r EXCEPT !.hProcess = 0, !.closes = @ + 1] ELSE r

\* lines 310-311: finally close_handle(info.hProcess)
Closed(r) == [r EXCEPT !.hProcess = 0, !.closes = @ + 1]

\* _run_elevated_command lines 299-311: WaitForSingleObject, GetExitCodeProcess.
\* The thread is blocked meanwhile, so what the waited-for process did is
\* part of the step. wscript.exe (strategy 1) exits when the tool has exited,
\* the direct strategy's process is the tool, cmd.exe (strategy 2) exits
\* once schtasks has started the task.
Wait(w) ==
    LET r == wk[w]
        k == wk[w].idx
    IN
    /\ r.pc = "wait"
    /\ \E res \in {"timeout", "unexpected", "noexit", "done"}, code \in {0, 1} :
         CASE res = "timeout" ->
                \* the tool is left running (the script of strategy 2 hangs
                \* before it has started the task)
                /\ k # 2 => tools < MaxTools
                /\ tools' = IF k # 2 THEN tools + 1 ELSE tools
                /\ UNCHANGED <<file, clipboard, fresh>>
                /\ SetWorker(w, Closed([r EXCEPT !.pc = "cleanup", !.exc = "TimeoutError"]))
           [] res = "unexpected" ->
                /\ k # 2 => tools < MaxTools
                /\ tools' = IF k # 2 THEN tools + 1 ELSE tools
                /\ UNCHANGED <<file, clipboard, fresh>>
                /\ SetWorker(w, Closed([r EXCEPT !.pc = "cleanup", !.exc = "RuntimeError"]))
           [] res = "noexit" ->
                /\ UNCHANGED tools
                /\ IF k # 2 THEN ToolOutput ELSE UNCHANGED <<file, clipboard, fresh>>
                /\ SetWorker(w, Closed([r EXCEPT !.pc = "cleanup", !.exc = "RuntimeError"]))
           [] res = "done" ->
                /\ k = 2 /\ code = 0 => tools < MaxTools
                /\ tools' = IF k = 2 /\ code = 0 THEN tools + 1 ELSE tools
                /\ IF k # 2 THEN ToolOutput ELSE UNCHANGED <<file, clipboard, fresh>>
                /\ SetWorker(w, Closed([r EXCEPT !.pc = "cleanup", !.exit_code = code]))
    /\ UNCHANGED <<checking, caller, ui, tempdir, call, ret>>

\* LoggedIssues that keeps the first two notes only
LoggedIssuesFirstTwo(launch_issues) ==
    SubSeq(launch_issues, 1, IF Len(launch_issues) > 2 THEN 2 ELSE Len(launch_issues))

\* lines 556-557: launch_issues[:6], joined and written to the log
LoggedIssues(launch_issues) ==
    SubSeq(launch_issues, 1, IF Len(launch_issues) > 6 THEN 6 ELSE Len(launch_issues))

\* NextMethod that jumps from the first method to the last
NextMethodSkipping(r) ==
    IF r.idx < NumMethods
    THEN [r EXCEPT !.idx = NumMethods, !.pc = "launch"]
    ELSE [r EXCEPT !.pc = "handle", !.error = ErrExhausted,
                   !.logged = LoggedIssues(r.launch_issues)]

\* WaitTime with one budget for every method
WaitTimeFlat(k) == 10

\* line 543: wait_time = 10.0 if method_name != "direct-elevated" else 25.0
WaitTime(k) == IF launch_methods[k] # "direct-elevated" THEN 10 ELSE 25

\* NextMethod that runs the same method again
NextMethodAgain(r) == [r EXCEPT !.pc = "launch"]

\* the for loop of _run_crystaldiskinfo_dump moving on (lines 531, 556-559):
\* the next method, or the RuntimeError that _collect_disk_entries wraps
NextMethod(r) ==
    IF r.idx < NumMethods
    THEN [r EXCEPT !.idx = @ + 1, !.pc = "launch"]
    ELSE [r EXCEPT !.pc = "handle", !.error = ErrExhausted,
                   !.logged = LoggedIssues(r.launch_issues)]

\* the locals of the runner that has returned or raised are gone
Left(r) ==
    [r EXCEPT !.exc = "none", !.exit_code = 0,
              !.script_path = 0, !.script_made = 0,
              !.hProcess = 0, !.closes = 0]

\* AfterRunner without "except PermissionError: raise"
AfterRunnerSwallowing(r) ==
    IF r.exc # "none"
    THEN NextMethod([Left(r) EXCEPT !.launch_issues =
                        Append(@, <<launch_methods[r.idx], "launch failed">>)])
    ELSE [Left(r) EXCEPT !.pc = "poll", !.checks = 0,
                   !.seconds = WaitTime(r.idx),
                   !.polled = @ \cup {r.idx},
                   !.launch_issues =
                        IF r.exit_code # 0
                        THEN Append(@, <<launch_methods[r.idx], "exit code">>)
                        ELSE @]

\* AfterRunner that lets every exception of the runner leave the loop
AfterRunnerRaising(r) ==
    IF r.exc = "PermissionError"
    THEN [Left(r) EXCEPT !.pc = "handle", !.error = ErrUac]
    ELSE IF r.exc # "none"
    THEN [Left(r) EXCEPT !.pc = "handle", !.error = ErrExhausted]
    ELSE [Left(r) EXCEPT !.pc = "poll", !.checks = 0,
                   !.seconds = WaitTime(r.idx),
                   !.polled = @ \cup {r.idx},
                   !.launch_issues =
                        IF r.exit_code # 0
                        THEN Append(@, <<launch_methods[r.idx], "exit code">>)
                        ELSE @]

\* lines 532-541 (and 668-669): what the loop does with the runner's result
AfterRunner(r) ==
    IF r.exc = "PermissionError"
    THEN [Left(r) EXCEPT !.pc = "handle", !.error = ErrUac]
    ELSE IF r.exc # "none"
    THEN NextMethod([Left(r) EXCEPT !.launch_issues =
                        Append(@, <<launch_methods[r.idx], "launch failed">>)])
    ELSE [Left(r) EXCEPT !.pc = "poll", !.checks = 0,
                   !.seconds = WaitTime(r.idx),
                   !.polled = @ \cup {r.idx},
                   !.launch_issues =
                        IF r.exit_code # 0
                        THEN Append(@, <<launch_methods[r.idx], "exit code">>)
                        ELSE @]

\* the finally blocks of the two script strategies (lines 338-343, 367-372),
\* then the loop's handling of the result
Cleanup(w) ==
    /\ wk[w].pc = "cleanup"
    /\ \E unlinked \in BOOLEAN :
          tempdir' = IF wk[w].script_path # 0 /\ unlinked
                     THEN tempdir \ {wk[w].script_path}
                     ELSE tempdir
    /\ SetWorker(w, AfterRunner(wk[w]))
    /\ UNCHANGED <<checking, caller, ui, file, clipboard, tools, fresh, call, ret>>

\* _read_diskinfo_text_if_ready, given the bytes read
_read_diskinfo_text_if_ready(current_data, previous_data) ==
    IF current_data = NoData THEN None
    ELSE IF ~_looks_like_crystaldiskinfo_report(_decode_text_bytes(current_data))
    THEN None
    ELSE IF previous_data = NoData \/ current_data # previous_data
    THEN _decode_text_bytes(current_data)
    ELSE None

\* _read_clipboard_text_if_ready without the report-signature check
ClipboardTextUnchecked(current_text, previous_text) ==
    IF current_text = None THEN None
    ELSE IF previous_text # None /\ current_text = previous_text THEN None
    ELSE current_text

\* _read_clipboard_text_if_ready, given the text read
_read_clipboard_text_if_ready(current_text, previous_text) ==
    IF current_text = None THEN None
    ELSE IF previous_text # None /\ current_text = previous_text THEN None
    ELSE IF _looks_like_crystaldiskinfo_report(current_text) THEN current_text
    ELSE None

\* _read_crystaldiskinfo_output_if_ready with the clipboard read first
OutputClipboardFirst(current_data, current_text, prev_data, prev_text) ==
    IF _read_clipboard_text_if_ready(current_text, prev_text) # None
    THEN _read_clipboard_text_if_ready(current_text, prev_text)
    ELSE _read_diskinfo_text_if_ready(current_data, prev_data)

\* _read_crystaldiskinfo_output_if_ready: the file first, then the clipboard
_read_crystaldiskinfo_output_if_ready(current_data, current_text, prev_data, prev_text) ==
    IF _read_diskinfo_text_if_ready(current_data, prev_data) # None
    THEN _read_diskinfo_text_if_ready(current_data, prev_data)
    ELSE _read_clipboard_text_if_ready(current_text, prev_text)

\* one check of the output channels by worker record r
CheckOutput(r, readable, opened) ==
    _read_crystaldiskinfo_output_if_ready(
        read_bytes(readable), _read_clipboard_text(opened),
        r.previous_data, r.previous_clipboard_text)

\* the channel a check's text came from
CheckSource(r, readable) ==
    IF _read_diskinfo_text_if_ready(read_bytes(readable), r.previous_data) # None
    THEN "file" ELSE "clipboard"

\* lines 550-551: the poll returned text, the dump returns it
Returned(r, text, source) ==
    [r EXCEPT !.pc = "handle", !.checks = @ + 1, !.seconds = 0,
              !.output_text = text, !.src = source]

\* _wait_for_crystaldiskinfo_output lines 500-504: a check before the deadline
PollCheck(w) ==
    /\ wk[w].pc = "poll"
    /\ wk[w].checks < MaxPollChecks
    /\ \E readable \in BOOLEAN, opened \in BOOLEAN :
         LET text == CheckOutput(wk[w], readable, opened) IN
         IF text # None
         THEN SetWorker(w, Returned(wk[w], text, CheckSource(wk[w], readable)))
         ELSE SetWorker(w, [wk[w] EXCEPT !.checks = @ + 1])
    /\ UNCHANGED <<checking, caller, ui, file, clipboard, tools, tempdir, fresh, call, ret>>

\* _wait_for_crystaldiskinfo_output line 505: the check after the deadline,
\* and line 553 when it finds nothing
PollFinal(w) ==
    /\ wk[w].pc = "poll"
    /\ \E readable \in BOOLEAN, opened \in BOOLEAN :
         LET text == CheckOutput(wk[w], readable, opened) IN
         IF text # None
         THEN SetWorker(w, Returned(wk[w], text, CheckSource(wk[w], readable)))
         ELSE SetWorker(w, [wk[w] EXCEPT
                 !.pc = "refresh", !.checks = @ + 1, !.seconds = 0,
                 !.launch_issues =
                     Append(@, <<launch_methods[wk[w].idx], "no output">>)])
    /\ UNCHANGED <<checking, caller, ui, file, clipboard, tools, tempdir, fresh, call, ret>>

\* line 554: previous_clipboard_text = _read_clipboard_text() or previous
RefreshBaseline(text_read, previous_clipboard_text) ==
    IF text_read # None THEN text_read ELSE previous_clipboard_text

\* line 554, then the next iteration
Refresh(w) ==
    /\ wk[w].pc = "refresh"
    /\ \E opened \in BOOLEAN :
         SetWorker(w, NextMethod([wk[w] EXCEPT
              !.checks = 0,
              !.previous_clipboard_text =
                  RefreshBaseline(_read_clipboard_text(opened), @)]))
    /\ UNCHANGED <<checking, caller, ui, file, clipboard, tools, tempdir, fresh, call, ret>>

\* _collect_disk_entries lines 675-678 and _worker lines 794-815: parse the
\* text and present the report, or present one failure message
Handle(w) ==
    LET r == [wk[w] EXCEPT !.checks = 0]
        entries == ParsedOutput(r.output_text)
    IN
    /\ r.pc = "handle"
    /\ IF r.error = "" /\ entries # <<>>
       THEN /\ ui' = MsgReport
            /\ SetWorker(w, [r EXCEPT !.pc = "finally", !.entries = entries,
                                      !.outcome = "report"])
       ELSE IF r.error = ""
       THEN /\ ui' = MsgFailed
            /\ SetWorker(w, [r EXCEPT !.pc = "finally", !.error = ErrNoData,
                                      !.outcome = "failed"])
       ELSE IF ContainsUAC(r.error)
       THEN /\ ui' = MsgCancelled
            /\ SetWorker(w, [r EXCEPT !.pc = "finally", !.outcome = "cancelled"])
       ELSE /\ ui' = MsgFailed
            /\ SetWorker(w, [r EXCEPT !.pc = "finally", !.outcome = "failed"])
    /\ UNCHANGED <<checking, caller, file, clipboard, tools, tempdir, fresh, call, ret>>

\* _worker lines 816-818: the flag is cleared and the thread ends
Finally(w) ==
    /\ wk[w].pc = "finally"
    /\ checking' = FALSE
    /\ SetWorker(w, IdleWorker)
    /\ UNCHANGED <<caller, ui, file, clipboard, tools, tempdir, fresh, call, ret>>

(* ----------------------------- environment ------------------------------ *)
\* a CrystalDiskInfo process nobody waits for exits
ToolFinish ==
    /\ tools > 0
    /\ tools' = tools - 1
    /\ ToolOutput
    /\ UNCHANGED <<checking, caller, ui, wk, tempdir, call, ret>>

\* another application replaces or empties the clipboard
ClipboardChange ==
    /\ \E t \in {None, Junk} : clipboard' = t
    /\ clipboard' # clipboard
    /\ UNCHANGED <<checking, caller, ui, wk, file, tools, tempdir, fresh, call, ret>>

Next ==
    \/ \E c \in Callers : TriggerCheck(c)
    \/ \E c \in Callers : TriggerStart(c)
    \/ \E w \in Slots : Collect(w)
    \/ \E w \in Slots : Snapshot(w)
    \/ \E w \in Slots : Launch(w)
    \/ \E w \in Slots : Elevate(w)
    \/ \E w \in Slots : Wait(w)
    \/ \E w \in Slots : Cleanup(w)
    \/ \E w \in Slots : PollCheck(w)
    \/ \E w \in Slots : PollFinal(w)
    \/ \E w \in Slots : Refresh(w)
    \/ \E w \in Slots : Handle(w)
    \/ \E w \in Slots : Finally(w)
    \/ ToolFinish
    \/ ClipboardChange

Spec == Init /\ [][Next]_vars

\* a step of worker thread w
WorkerStep(w) ==
    \/ Collect(w) \/ Snapshot(w) \/ Launch(w) \/ Elevate(w) \/ Wait(w)
    \/ Cleanup(w) \/ PollCheck(w) \/ PollFinal(w) \/ Refresh(w)
    \/ Handle(w) \/ Finally(w)

\* one acquisition: the state in which _trigger_check has started the worker
LiveInit ==
    /\ checking = TRUE
    /\ caller = [c \in Callers |-> "ready"]
    /\ ui = MsgChecking
    /\ wk = [w \in Slots |-> IF w = 1 THEN [IdleWorker EXCEPT !.pc = "collect"]
                                      ELSE IdleWorker]
    /\ file \in {NoFile, [exists |-> TRUE, data |-> D1Bom]}
    /\ clipboard \in {None, R2}
    /\ tools = 0
    /\ tempdir = {}
    /\ fresh = FALSE
    /\ call = NoCall
    /\ ret = NoRet

LiveNext ==
    \/ \E w \in Slots : WorkerStep(w)
    \/ ToolFinish

\* the worker thread keeps running: every call it makes returns
\* (ShellExecuteExW, WaitForSingleObject with its timeout, the file and
\* clipboard reads) and the poll loop's deadline passes
LiveSpec == LiveInit /\ [][LiveNext]_vars /\ \A w \in Slots : WF_vars(WorkerStep(w))

(* ----------------------- the parsers on their own ----------------------- *)
\* the lines a text can be made of
Lines ==
    {LBanner, LHdr1, LHdr2, LSel, LModel, LModelDup, LSerial, LJunk,
     LHealth45, LHealth150, LTemp35, LTemp200, LTempNeg}

RECURSIVE Joined(_)
\* the text a sequence of tokens makes
Joined(tokens) ==
    IF tokens = <<>> THEN <<>> ELSE Head(tokens) \o Joined(Tail(tokens))

\* the tokens temperature texts are made of
T200 == <<"2", "0", "0">>
TC == <<"C">>
TMinus == <<"-">>
TempTokens == {T45, T150, T200, TSp, TC, TMinus, TCaution}

\* the health_percent values handed to _parse_health_code
Percents == {NoInt, 0, 79, 80, 100}

\* the tokens raw lines are made of
TNumbered == <<"(", "1", ")">>
TOpen == <<"(">>
TA == <<"A">>
TColon == <<":">>
HeaderTokens == {TNumbered, TOpen, TA, TColon, TSp}

\* the records handed to _build_report
EntryNumbers == {1, 2}
EntryPercents == {NoInt, 79, 80}
EntryCodes == {NoInt, 0, 1, 2}
EntryTemperatures == {NoTemp, 59, 60}
Entries ==
    {[Number |-> n, FriendlyName |-> "DiskX", HealthStatus |-> VUnknown,
      HealthPercent |-> p, Temperature |-> t, Wear |-> WearOf(p),
      CdiProperties |-> <<>>, _healthCode |-> c] :
        n \in EntryNumbers, p \in EntryPercents, c \in EntryCodes,
        t \in EntryTemperatures}

PureInit ==
    /\ checking = FALSE
    /\ caller = [c \in Callers |-> "ready"]
    /\ ui = ""
    /\ wk = [w \in Slots |-> IdleWorker]
    /\ file = NoFile
    /\ clipboard = None
    /\ tools = 0
    /\ tempdir = {}
    /\ fresh = FALSE
    \* a text of at most MaxLines lines
    /\ \/ \E n \in 0..MaxLines : \E t \in [1..n -> Lines] :
             call = [NoCall EXCEPT !.kind = "text", !.text = t]
       \* a status text of at most MaxTokens tokens, and a health percent
       \/ \E n \in 0..MaxTokens : \E s \in [1..n -> Tokens], p \in Percents :
             call = [NoCall EXCEPT !.kind = "status", !.status = Joined(s),
                                   !.percent = p]
       \* a temperature text of at most MaxTokens tokens
       \/ \E n \in 0..MaxTokens : \E s \in [1..n -> TempTokens] :
             call = [NoCall EXCEPT !.kind = "temperature", !.status = Joined(s)]
       \* a list of at most MaxEntries records
       \/ \E n \in 0..MaxEntries : \E e \in [1..n -> Entries] :
             call = [NoCall EXCEPT !.kind = "entries", !.entries = e]
       \* a raw line of at most MaxHeaderTokens tokens
       \/ \E n \in 0..MaxHeaderTokens : \E l \in [1..n -> HeaderTokens] :
             call = [NoCall EXCEPT !.kind = "line", !.line = Joined(l)]
    /\ ret = NoRet

\* _parse_crystaldiskinfo_entries(text), with the sections it was given
ParseReport ==
    /\ call.fn = "none"
    /\ call.kind = "text"
    /\ call' = [call EXCEPT !.fn = "_parse_crystaldiskinfo_entries"]
    /\ ret' = [NoRet EXCEPT !.sections = _split_disk_sections(call.text),
                            !.entries = _parse_crystaldiskinfo_entries(call.text)]
    /\ UNCHANGED <<checking, caller, ui, wk, file, clipboard, tools, tempdir, fresh>>

\* _parse_section_properties(lines)
ParseSectionProperties ==
    /\ call.fn = "none"
    /\ call.kind = "text"
    /\ call' = [call EXCEPT !.fn = "_parse_section_properties"]
    /\ ret' = [NoRet EXCEPT !.properties = _parse_section_properties(call.text)[1],
                            !.ordered = _parse_section_properties(call.text)[2]]
    /\ UNCHANGED <<checking, caller, ui, wk, file, clipboard, tools, tempdir, fresh>>

\* _parse_health_percent(status_text)
ParseHealthPercent ==
    /\ call.fn = "none"
    /\ call.kind = "status"
    /\ call' = [call EXCEPT !.fn = "_parse_health_percent"]
    /\ ret' = [NoRet EXCEPT !.percent = _parse_health_percent(call.status)]
    /\ UNCHANGED <<checking, caller, ui, wk, file, clipboard, tools, tempdir, fresh>>

\* _parse_health_code(status_text, health_percent)
ParseHealthCode ==
    /\ call.fn = "none"
    /\ call.kind = "status"
    /\ call' = [call EXCEPT !.fn = "_parse_health_code"]
    /\ ret' = [NoRet EXCEPT !.code = _parse_health_code(call.status, call.percent)]
    /\ UNCHANGED <<checking, caller, ui, wk, file, clipboard, tools, tempdir, fresh>>

\* _parse_temperature(value)
ParseTemperature ==
    /\ call.fn = "none"
    /\ call.kind = "temperature"
    /\ call' = [call EXCEPT !.fn = "_parse_temperature"]
    /\ ret' = [NoRet EXCEPT !.temperature = _parse_temperature(call.status)]
    /\ UNCHANGED <<checking, caller, ui, wk, file, clipboard, tools, tempdir, fresh>>

\* _build_report(entries)
BuildReport ==
    /\ call.fn = "none"
    /\ call.kind = "entries"
    /\ call' = [call EXCEPT !.fn = "_build_report"]
    /\ ret' = [NoRet EXCEPT !.report = _build_report(call.entries)]
    /\ UNCHANGED <<checking, caller, ui, wk, file, clipboard, tools, tempdir, fresh>>

\* one raw line handed to the loop of _split_disk_sections
SplitLine ==
    /\ call.fn = "none"
    /\ call.kind = "line"
    /\ call' = [call EXCEPT !.fn = "_split_disk_sections"]
    /\ ret' = [NoRet EXCEPT !.header = SectionHeader(call.line)]
    /\ UNCHANGED <<checking, caller, ui, wk, file, clipboard, tools, tempdir, fresh>>

PureNext ==
    \/ ParseReport
    \/ ParseSectionProperties
    \/ ParseHealthPercent
    \/ ParseHealthCode
    \/ ParseTemperature
    \/ BuildReport
    \/ SplitLine

PureSpec == PureInit /\ [][PureNext]_vars

(* ------------------------------- claims --------------------------------- *)
Granted == {c \in Callers : caller[c] = "granted"}

C1_Inv ==
    /\ Cardinality(InFlight) + Cardinality(Granted) <= 1
    /\ (InFlight # {} \/ Granted # {}) => checking

C1_Step ==
    \* a rejected trigger: the message, no worker, the flag stays set
    /\ (ui' = MsgAlreadyRunning /\ ui # MsgAlreadyRunning)
          => (checking /\ checking' /\ wk' = wk /\ caller' = caller)
    \* a trigger is granted only when it finds the flag idle, and sets it
    /\ (\E c \in Callers : caller[c] = "ready" /\ caller'[c] = "granted")
          => (~checking /\ checking' /\ wk' = wk)
    \* a worker is started only by a granted trigger, one at a time
    /\ (\E w \in Slots : wk[w].pc = "idle" /\ wk'[w].pc # "idle")
          => /\ \E c \in Callers : caller[c] = "granted" /\ caller'[c] = "ready"
             /\ Cardinality({w \in Slots : wk'[w].pc # "idle"})
                   = Cardinality(InFlight) + 1

\* C1: at most one acquisition worker is in flight (counting a granted
\* trigger that has yet to start its worker); a trigger that finds the flag
\* set emits "already running", starts no worker and leaves the flag set;
\* only a trigger that finds the flag idle sets it, and a worker is started
\* only by such a trigger, one worker for one trigger.
C1_SingleFlight == []C1_Inv /\ [][C1_Step]_vars

C1_Witness == checking /\ InFlight # {} /\ ui = MsgAlreadyRunning

\* C2: once the elevation request of strategy k reports that the user
\* cancelled, no strategy after k is launched, k is not polled, and the
\* message presented is "cancelled", never "failed, see log".
C2_CancelAborts ==
    \A w \in Slots :
       wk[w].uac # 0 =>
          /\ Len(wk[w].launched) = wk[w].uac
          /\ \A i \in 1..Len(wk[w].launched) : wk[w].launched[i] = i
          /\ wk[w].uac \notin wk[w].polled
          /\ wk[w].pc \in {"cleanup", "handle", "finally"}
          /\ wk[w].outcome \in {"none", "cancelled"}
          /\ wk[w].pc = "finally" => wk[w].outcome = "cancelled"

C2_Witness ==
    \E w \in Slots : wk[w].uac = 2 /\ wk[w].pc = "finally" /\ ui = MsgCancelled

\* the records the sample reports hold
ExpectedEntry(number, name, pairs) ==
    [Number |-> number, FriendlyName |-> name, HealthStatus |-> VUnknown,
     HealthPercent |-> NoInt, Temperature |-> NoTemp, Wear |-> NoInt,
     CdiProperties |-> pairs, _healthCode |-> NoInt]

ExpectedEntries(text) ==
    CASE text = R1 -> << ExpectedEntry(1, "DiskX", << <<"Model", "DiskX">> >>) >>
      [] text = R2 -> << ExpectedEntry(1, "ModelA", <<>>),
                         ExpectedEntry(2, "ModelB", <<>>) >>
      [] OTHER -> <<>>

\* C3: the strategies are launched in the order 1, 2, 3, each at most once;
\* the text returned is the one the poll of the last strategy launched
\* obtained, no strategy is launched after it, and the records of a
\* presented report are those of that text.
C3_OrderAndFirstOutput ==
    \A w \in Slots :
       /\ Len(wk[w].launched) <= NumMethods
       /\ \A i \in 1..Len(wk[w].launched) : wk[w].launched[i] = i
       /\ wk[w].output_text # None =>
             /\ wk[w].pc \in {"handle", "finally"}
             /\ Len(wk[w].launched) = wk[w].idx
             /\ wk[w].idx \in wk[w].polled
       /\ wk[w].outcome = "report" =>
             /\ wk[w].output_text # None
             /\ wk[w].entries = ExpectedEntries(wk[w].output_text)

C3_Witness ==
    \E w \in Slots :
       /\ wk[w].outcome = "report"
       /\ wk[w].polled = {1, 2, 3}
       /\ wk[w].output_text = R2
       /\ Len(wk[w].entries) = 2

C4_Step ==
    \A w \in Slots :
       LET r == wk[w]
           q == wk'[w]
           next == IF r.idx < NumMethods
                   THEN q.pc = "launch" /\ q.idx = r.idx + 1
                   ELSE q.pc = "handle" /\ q.error = ErrExhausted
       IN
       \* the elevated process could not be started, or its wait failed
       /\ (r.pc = "cleanup" /\ q.pc # "cleanup"
              /\ r.exc \in {"RuntimeError", "TimeoutError"})
             => /\ q.launch_issues = Append(r.launch_issues,
                       <<launch_methods[r.idx], "launch failed">>)
                /\ next
       \* it exited with a non-zero code: recorded, and the poll is made
       /\ (r.pc = "cleanup" /\ q.pc # "cleanup"
              /\ r.exc = "none" /\ r.exit_code # 0)
             => /\ q.launch_issues = Append(r.launch_issues,
                       <<launch_methods[r.idx], "exit code">>)
                /\ q.pc = "poll" /\ q.idx = r.idx
       \* no output within the wait budget
       /\ (r.pc = "poll" /\ q.pc # "poll" /\ q.output_text = None)
             => /\ q.launch_issues = Append(r.launch_issues,
                       <<launch_methods[r.idx], "no output">>)
                /\ q.pc = "refresh" /\ q.idx = r.idx
       /\ (r.pc = "refresh" /\ q.pc # "refresh") => next

C5_OnlyElevationCancels ==
    \A w \in Slots : wk[w].outcome = "cancelled" => wk[w].uac # 0

\* C6: whenever no trigger and no worker is under way, the flag is idle.
C6_FlagCleared ==
    (InFlight = {} /\ Granted = {}) => ~checking

\* C7: when the loop moves to the next strategy, the clipboard baseline is
\* the clipboard content as read at that moment (None if it could not be read).
C7_BaselineRefreshed ==
    [][\A w \in Slots :
          wk'[w].idx > wk[w].idx
             => wk'[w].previous_clipboard_text \in {clipboard, None}]_vars

\* the sample texts that carry the product banner and a section-header line
Signed == {R1, R2, RSel}

C8_Step ==
    \A w \in Slots :
       (wk[w].output_text = None /\ wk'[w].output_text # None) =>
          /\ wk[w].pc = "poll"
          /\ wk'[w].output_text \in Signed
          /\ \/ /\ wk'[w].src = "file"
                /\ file.exists
                /\ file.data # wk[w].previous_data
                /\ file.data.text = wk'[w].output_text
             \/ /\ wk'[w].src = "clipboard"
                /\ clipboard = wk'[w].output_text
                /\ clipboard # wk[w].previous_clipboard_text

C9_NoStaleFile ==
    \A w \in Slots : wk[w].src = "file" => fresh

\* C10: when a script strategy returns or raises, the temporary script it
\* created does not exist.
C10_ScriptDeleted ==
    [][\A w \in Slots :
          (wk[w].pc = "cleanup" /\ wk'[w].pc # "cleanup")
             => (wk[w].script_made = 0 \/ wk[w].script_made \notin tempdir')]_vars

\* the acquisition of worker w has ended: text returned or an error raised
Ended(w) ==
    /\ wk[w].pc = "handle"
    /\ (wk[w].output_text # None) # (wk[w].error # "")

C11_Inv ==
    \A w \in Slots :
       /\ Len(wk[w].launched) <= NumMethods
       /\ wk[w].polled \subseteq {wk[w].launched[i] : i \in 1..Len(wk[w].launched)}
       /\ wk[w].checks <= MaxPollChecks + 1
       /\ wk[w].pc = "handle" => Ended(w)

\* a poll is begun for a strategy that has not been polled before
C11_Step ==
    \A w \in Slots :
       (wk[w].pc # "poll" /\ wk'[w].pc = "poll") => wk[w].idx \notin wk[w].polled

\* C11: an acquisition launches at most three strategies and polls each of
\* them at most once, a poll makes a bounded number of checks, and an
\* acquisition that has begun always ends, with report text or with an error.
C11_Terminates ==
    /\ []C11_Inv
    /\ [][C11_Step]_vars
    /\ \A w \in Slots : (wk[w].pc = "snapshot") ~> Ended(w)

C11_Witness ==
    \E w \in Slots :
       /\ Ended(w) /\ wk[w].error = ErrExhausted
       /\ Len(wk[w].launched) = 3 /\ wk[w].polled = {1, 2, 3}

\* the methods that have a note among the given notes
Noted(notes) == {k \in Methods : \E i \in 1..Len(notes) : notes[i][1] = launch_methods[k]}

C12_Inv ==
    \A w \in Slots :
       wk[w].error = ErrExhausted =>
          /\ wk[w].launched = <<1, 2, 3>>
          /\ wk[w].output_text = None /\ wk[w].uac = 0
          /\ wk[w].logged = wk[w].launch_issues
          /\ Noted(wk[w].logged) = Methods
          /\ wk[w].outcome \in {"none", "failed"}
          /\ wk[w].pc = "finally" => wk[w].outcome = "failed"

C12_Step ==
    \A w \in Slots :
       \* the loop ends without output only after the third method, with the
       \* exhausted failure
       /\ (wk[w].pc \in {"cleanup", "refresh"} /\ wk'[w].pc = "handle"
              /\ wk[w].exc # "PermissionError")
             => /\ wk[w].idx = NumMethods
                /\ wk'[w].error = ErrExhausted
       \* what is presented is the fixed failure message
       /\ (wk[w].pc = "handle" /\ wk[w].error = ErrExhausted /\ wk'[w].pc = "finally")
             => ui' = MsgFailed

\* C12: when the three strategies have been attempted and none gave output
\* or was cancelled, the acquisition ends with the exhausted failure, the
\* message presented is the fixed "failed, see log" message, and the notes
\* written to the log are all the notes recorded, with a note for each of the
\* three strategies.
C12_ExhaustedDiagnostic == []C12_Inv /\ [][C12_Step]_vars

C12_Witness ==
    \E w \in Slots :
       /\ wk[w].pc = "finally" /\ wk[w].error = ErrExhausted
       /\ Len(wk[w].logged) = 6 /\ ui = MsgFailed

\* the message an ended acquisition should present
C13_Expected(r) ==
    IF r.error = "" /\ r.output_text # None
          /\ _parse_crystaldiskinfo_entries(r.output_text) # <<>>
    THEN MsgReport
    ELSE IF r.uac # 0 THEN MsgCancelled
    ELSE MsgFailed

C13_Step ==
    \A w \in Slots :
       (wk[w].pc = "handle" /\ wk'[w].pc = "finally") => ui' = C13_Expected(wk[w])

\* C13: a trigger that was granted has a worker (or is about to start it),
\* and the worker ends by presenting one message: the report when text was
\* acquired and parsed, "cancelled" when an elevation request was cancelled,
\* "failed, see log" otherwise.
C13_OnePresentation ==
    /\ [](checking => (InFlight # {} \/ Granted # {}))
    /\ [][C13_Step]_vars

C14_Step ==
    \A w \in Slots :
       LET r == wk[w]
           q == wk'[w]
       IN
       \* the runner returned an exit code: the poll follows, with the budget
       /\ (r.pc = "cleanup" /\ q.pc # "cleanup" /\ r.exc = "none")
             => /\ q.pc = "poll" /\ q.idx = r.idx
                /\ q.seconds = (IF r.idx = 3 THEN 25 ELSE 10)
                /\ q.launch_issues =
                      (IF r.exit_code # 0
                       THEN Append(r.launch_issues, <<launch_methods[r.idx], "exit code">>)
                       ELSE r.launch_issues)
       \* the next strategy follows a poll or a runner that raised
       /\ q.idx > r.idx
             => \/ r.pc = "refresh" /\ r.idx \in r.polled
                \/ r.pc = "cleanup" /\ r.exc # "none"

\* C14: a strategy whose runner returns an exit code, zero or not, is polled
\* before the next strategy is launched; a non-zero code adds a note and the
\* poll is made all the same; the poll budget is 10 s for the first two
\* strategies and 25 s for the direct-elevated strategy.
C14_ExitCodeThenPoll == [][C14_Step]_vars

C14_Witness ==
    \E w \in Slots :
       /\ wk[w].pc = "poll" /\ wk[w].idx = 3 /\ wk[w].seconds = 25
       /\ wk[w].launch_issues[Len(wk[w].launch_issues)] = <<"direct-elevated", "exit code">>

\* the text the output file gives worker record r when the read succeeds
FileText(r) == _read_diskinfo_text_if_ready(read_bytes(TRUE), r.previous_data)

C15_Inv ==
    \A w \in Slots :
       \* a qualifying file wins over whatever the clipboard holds
       /\ (wk[w].pc = "poll" /\ FileText(wk[w]) # None)
             => \A opened \in BOOLEAN :
                   CheckOutput(wk[w], TRUE, opened) = FileText(wk[w])
       \* a poll that ended has made at least one check, and at most one
       \* more than the checks made before the deadline
       /\ wk[w].pc = "refresh"
             => (wk[w].checks >= 1 /\ wk[w].checks <= MaxPollChecks + 1)
       /\ (wk[w].pc = "handle" /\ wk[w].output_text # None) => wk[w].checks >= 1

C15_Step ==
    \A w \in Slots :
       LET r == wk[w]
           q == wk'[w]
       IN
       r.pc = "poll" =>
          \* a check before the deadline that found nothing
          /\ q.pc = "poll" => (q = r \/ (r.checks < MaxPollChecks /\ q.checks = r.checks + 1))
          \* the poll returns absent: by a check that found nothing
          /\ q.pc = "refresh"
                => /\ q.checks = r.checks + 1
                   /\ \E readable \in BOOLEAN, opened \in BOOLEAN :
                         CheckOutput(r, readable, opened) = None
          \* the poll returns text: the file's when the file was the source
          /\ q.pc = "handle"
                => /\ q.checks = r.checks + 1
                   /\ q.src = "file" => q.output_text = FileText(r)
                   /\ q.src = "clipboard" => q.output_text = clipboard

\* C15: a check reads the output file before the clipboard, so a qualifying
\* file is returned whatever the clipboard holds; a poll returns absent only
\* through one check made after the checks before the deadline found
\* nothing, so every poll makes at least one check.
C15_FileFirstFinalCheck == []C15_Inv /\ [][C15_Step]_vars

C15_Witness ==
    \E w \in Slots :
       /\ wk[w].pc = "handle" /\ wk[w].src = "file" /\ wk[w].output_text = R1
       /\ wk[w].checks = MaxPollChecks + 1
       /\ clipboard \in ClipWrites /\ clipboard # wk[w].previous_clipboard_text

C16_Inv ==
    \A w \in Slots :
       /\ wk[w].hProcess = 1 <=> wk[w].pc = "wait"
       /\ wk[w].closes <= 1
       /\ wk[w].pc = "wait" => wk[w].closes = 0

C16_Step ==
    \A w \in Slots :
       \* every way out of the wait releases the handle, once
       /\ (wk[w].pc = "wait" /\ wk'[w].pc # "wait")
             => (wk'[w].hProcess = 0 /\ wk'[w].closes = 1)
       \* nothing else releases a handle
       /\ wk'[w].closes > wk[w].closes => wk[w].pc = "wait"

\* C16: the process handle obtained by the elevated launch is open exactly
\* while the wait is under way and is released exactly once when the wait
\* ends: by completion, by timeout, by an unexpected wait result or by a
\* failure to read the exit code.
C16_HandleReleasedOnce == []C16_Inv /\ [][C16_Step]_vars

C16_Witness ==
    \E w \in Slots :
       /\ wk[w].pc = "cleanup" /\ wk[w].exc = "TimeoutError"
       /\ wk[w].hProcess = 0 /\ wk[w].closes = 1

\* the k-th smallest member of a set of positions
Kth(positions, k) ==
    CHOOSE i \in positions : Cardinality({j \in positions : j < i}) = k - 1

\* the positions of the header lines a text retains: not selector-list lines
RetainedHeaders(text) ==
    {i \in 1..Len(text) : ~_DISK_LIST_ENTRY_RE(text[i]) /\ _DISK_HEADER_RE(text[i])}

\* the lines after the k-th retained header up to the next one, without the
\* selector-list lines
SectionBody(text, k) ==
    LET heads == RetainedHeaders(text)
        first == Kth(heads, k) + 1
        last == IF k = Cardinality(heads) THEN Len(text) ELSE Kth(heads, k + 1) - 1
        kept(line) == ~_DISK_LIST_ENTRY_RE(line)
    IN SelectSeq(SubSeq(text, first, last), kept)

\* C17: the parser returns one record for each header line the text retains
\* (a selector-list line is dropped even though the header pattern matches
\* it), in the order of these lines; the k-th section has the number and
\* label of the k-th retained header and the lines that follow it up to the
\* next retained header, selector-list lines left out; lines before the
\* first header belong to no section.
C17_DiscoveryOrder ==
    call.fn = "_parse_crystaldiskinfo_entries" =>
       LET heads == RetainedHeaders(call.text) IN
       /\ Len(ret.sections) = Cardinality(heads)
       /\ Len(ret.entries) = Cardinality(heads)
       /\ \A k \in 1..Cardinality(heads) :
             /\ ret.sections[k].Number = HeaderNumber(call.text[Kth(heads, k)])
             /\ ret.sections[k].HeaderName = HeaderName(call.text[Kth(heads, k)])
             /\ ret.sections[k].Lines = SectionBody(call.text, k)
             /\ ret.entries[k] = _build_entry_from_section(ret.sections[k])

C17_Witness ==
    /\ call.fn = "_parse_crystaldiskinfo_entries"
    /\ call.text = <<LHdr2, LSel, LHdr1>>
    /\ Len(ret.entries) = 2
    /\ ret.entries[1].Number = 2 /\ ret.entries[2].Number = 1

\* the positions of the lines that hold the first occurrence of their key
FirstOccurrences(lines) ==
    {i \in 1..Len(lines) :
        /\ _KEY_VALUE_RE(lines[i]) # <<>>
        /\ \A j \in 1..(i - 1) :
              \/ _KEY_VALUE_RE(lines[j]) = <<>>
              \/ Lower(_KEY_VALUE_RE(lines[j])[1]) # Lower(_KEY_VALUE_RE(lines[i])[1])}

\* C18: for any lines of a section, the ordered list holds the key and value
\* of exactly the lines that are the first occurrence of their key (keys
\* compared in lower case), in the order of these lines, and the mapping
\* gives each lowered key the value of its first occurrence.
C18_FirstOccurrenceWins ==
    call.fn = "_parse_section_properties" =>
       LET firsts == FirstOccurrences(call.text) IN
       /\ Len(ret.ordered) = Cardinality(firsts)
       /\ \A k \in 1..Cardinality(firsts) :
             ret.ordered[k] = _KEY_VALUE_RE(call.text[Kth(firsts, k)])
       /\ DOMAIN ret.properties =
             {Lower(_KEY_VALUE_RE(call.text[i])[1]) : i \in firsts}
       /\ \A i \in firsts :
             ret.properties[Lower(_KEY_VALUE_RE(call.text[i])[1])]
                = _KEY_VALUE_RE(call.text[i])[2]

C18_Witness ==
    /\ call.fn = "_parse_section_properties"
    /\ call.text = <<LModelDup, LSerial, LModel>>
    /\ ret.ordered = << <<"MODEL", "DiskY">>, <<"Serial Number", "S1">> >>
    /\ ret.properties["model"] = "DiskY"

\* a keyword of the set occurs in the status text, whatever the case
HasKeyword(status_text, keywords) ==
    \E keyword \in keywords : Contains(lower(strip(status_text)), keyword)

\* C19: the health code is BAD when the status text holds a bad keyword,
\* else WARNING when it holds a warn keyword, else GOOD when it holds a good
\* keyword, whatever the health percentage; with no keyword it is absent
\* for an unknown percentage, GOOD for a percentage of at least 80 and
\* WARNING below 80.
C19_HealthCodeCascade ==
    call.fn = "_parse_health_code" =>
       ret.code =
          (IF HasKeyword(call.status, _HEALTH_BAD_KEYWORDS) THEN 2
           ELSE IF HasKeyword(call.status, _HEALTH_WARN_KEYWORDS) THEN 1
           ELSE IF HasKeyword(call.status, _HEALTH_GOOD_KEYWORDS) THEN 0
           ELSE IF call.percent = NoInt THEN NoInt
           ELSE IF call.percent >= 80 THEN 0
           ELSE 1)

C19_Witness ==
    /\ call.fn = "_parse_health_code"
    /\ call.status = TCaution \o TBad /\ call.percent = 100
    /\ ret.code = 2

\* the numbers written in a status text right before a percent sign
\* (whitespace allowed in between): <<first, last>> positions of the digits
EmbeddedPercentages(text) ==
    {run \in (1..Len(text)) \X (1..Len(text)) :
        /\ run[1] <= run[2]
        /\ \A j \in run[1]..run[2] : IsDigit(text[j])
        /\ run[1] = 1 \/ ~IsDigit(text[run[1] - 1])
        /\ \E p \in (run[2] + 1)..Len(text) :
              /\ text[p] = "%"
              /\ \A j \in (run[2] + 1)..(p - 1) : IsSpace(text[j])}

\* a number given by its digits, clamped to [0,100]
ClampedNumber(digits) ==
    IF \E j \in 1..(Len(digits) - 3) : digits[j] # "0" THEN 100
    ELSE _clamp_percent(IntOf(SubSeq(digits, IF Len(digits) > 3 THEN Len(digits) - 2 ELSE 1,
                                     Len(digits))))

\* C20: for a status text with an embedded percentage the health percentage
\* is that number clamped to [0,100], whatever keywords the text holds;
\* without one it is 0 for a bad keyword, else 50 for a warn keyword, else
\* 100 for a good keyword, else absent.
C20_PercentBeforeKeywords ==
    call.fn = "_parse_health_percent" =>
       LET text == strip(call.status)
           runs == EmbeddedPercentages(text)
       IN
       IF runs # {}
       THEN LET run == CHOOSE a \in runs : \A b \in runs : a[1] <= b[1]
            IN ret.percent = ClampedNumber(SubSeq(text, run[1], run[2]))
       ELSE ret.percent =
               (IF HasKeyword(call.status, _HEALTH_BAD_KEYWORDS) THEN 0
                ELSE IF HasKeyword(call.status, _HEALTH_WARN_KEYWORDS) THEN 50
                ELSE IF HasKeyword(call.status, _HEALTH_GOOD_KEYWORDS) THEN 100
                ELSE NoInt)

DigitChar(d) ==
    CASE d = 0 -> "0" [] d = 1 -> "1" [] d = 2 -> "2" [] d = 3 -> "3"
      [] d = 4 -> "4" [] d = 5 -> "5" [] d = 6 -> "6" [] d = 7 -> "7"
      [] d = 8 -> "8" [] d = 9 -> "9"

RECURSIVE Decimal(_)
\* the decimal digits of a natural number
Decimal(n) ==
    IF n < 10 THEN <<DigitChar(n)>>
    ELSE Decimal(n \div 10) \o <<DigitChar(n % 10)>>

\* the value of the temperature property of a record, <<>> without one
TemperatureText(entry) ==
    LET ks == {k \in 1..Len(entry.CdiProperties) :
                  entry.CdiProperties[k][1] = "Temperature"} IN
    IF ks = {} THEN <<>> ELSE entry.CdiProperties[CHOOSE k \in ks : TRUE][2]

\* a temperature is absent, or lies in the range and is a number written in
\* the text it was read from
InRangeAsWritten(t, value) ==
    \/ t = NoTemp
    \/ /\ -40 <= t /\ t <= 150
       /\ t >= 0 => Contains(value, Decimal(t))
       /\ t < 0 => Contains(value, <<"-">> \o Decimal(0 - t))

\* C21: every record the parser builds has a health percent that is absent
\* or in 0..100, a temperature that is absent or in -40..150 and then the
\* number written (a value out of the range is absent, not clamped), and a
\* wear that is absent exactly when the health percent is and otherwise is
\* 100 minus the health percent; the two parsers keep the ranges on every
\* text.
C21_RecordRanges ==
    /\ call.fn = "_parse_crystaldiskinfo_entries" =>
          \A k \in 1..Len(ret.entries) :
             LET e == ret.entries[k] IN
             /\ e.HealthPercent = NoInt \/ e.HealthPercent \in 0..100
             /\ InRangeAsWritten(e.Temperature, TemperatureText(e))
             /\ TemperatureText(e) \in {<<>>, V200C, VNeg45C} => e.Temperature = NoTemp
             /\ TemperatureText(e) = V35C => e.Temperature = 35
             /\ (e.Wear = NoInt) <=> (e.HealthPercent = NoInt)
             /\ e.HealthPercent # NoInt => e.Wear = 100 - e.HealthPercent
    /\ call.fn = "_parse_temperature" => InRangeAsWritten(ret.temperature, call.status)
    /\ call.fn = "_parse_health_percent" => (ret.percent = NoInt \/ ret.percent \in 0..100)

\* a record whose percentage was clamped and whose temperature was out of
\* the range
C21_Witness ==
    /\ call.fn = "_parse_crystaldiskinfo_entries"
    /\ call.text = <<LHdr1, LHealth150, LTemp200>>
    /\ Len(ret.entries) = 1
    /\ ret.entries[1].HealthPercent = 100
    /\ ret.entries[1].Wear = 0
    /\ ret.entries[1].Temperature = NoTemp

\* the condition of an alert
Tagged(entry) ==
    \/ entry.HealthPercent \in 0..79
    \/ entry._healthCode = 1
    \/ entry._healthCode = 2
    \/ entry.Temperature \in 60..150

NumberIs1(entry) == entry.Number = 1

NumberIs2(entry) == entry.Number = 2

\* C22: in the report of a list of records the block of a record is tagged
\* ALERT if and only if its health percent is known and below 80, or its
\* health code is WARNING or BAD, or its temperature is known and at least
\* 60; the alert count of the summary is the number of blocks so tagged and
\* the healthy count is the total minus the alert count.
C22_AlertTagAndCounts ==
    (call.fn = "_build_report" /\ call.entries # <<>>) =>
       LET byNumber == SelectSeq(call.entries, NumberIs1) \o SelectSeq(call.entries, NumberIs2)
           blocks == ret.report.details
           alerts == {k \in 1..Len(blocks) : blocks[k].state_label = "ALERT"}
       IN
       /\ Len(blocks) = Len(call.entries)
       /\ \A k \in 1..Len(blocks) :
             /\ blocks[k].state_label \in {"ALERT", "OK"}
             /\ blocks[k].number = byNumber[k].Number
             /\ blocks[k].state_label = "ALERT" <=> Tagged(byNumber[k])
       /\ ret.report.summary.Disks = Len(call.entries)
       /\ ret.report.summary.Alerts = Cardinality(alerts)
       /\ ret.report.summary.Healthy = Len(call.entries) - Cardinality(alerts)

\* two records given out of order, the second one an alert by its
\* temperature only
C22_Witness ==
    /\ call.fn = "_build_report"
    /\ Len(call.entries) = 2
    /\ call.entries[1].Number = 2 /\ call.entries[2].Number = 1
    /\ call.entries[1].HealthPercent = 80 /\ call.entries[1]._healthCode = 0
    /\ call.entries[1].Temperature = 60
    /\ call.entries[2].HealthPercent = NoInt /\ call.entries[2]._healthCode = NoInt
    /\ call.entries[2].Temperature = 59
    /\ ret.report.details[1].state_label = "OK"
    /\ ret.report.details[2].state_label = "ALERT"
    /\ ret.report.summary.Alerts = 1
    /\ ret.report.summary.Healthy = 1

\* C23: strategy k+1 of an acquisition is launched only when no tool
\* process started earlier is still running, so that at most one instance
\* of the tool runs at any time.
C23_OneToolAtATime ==
    [][\A w \in Slots :
          (Len(wk'[w].launched) > Len(wk[w].launched) /\ wk[w].idx > 1)
             => tools = 0]_vars

\* C24: a report is not lost between two strategies. When the poll of the
\* first polled strategy has ended without a report and the clipboard then
\* holds a qualifying report that differs from the text read from it when
\* the acquisition started, the next strategy is entered in a state where a
\* check that reads the channels returns a report.
C24_ReportNotLost ==
    [][\A w \in Slots :
          (/\ wk[w].pc = "refresh"
           /\ Cardinality(wk[w].polled) = 1
           /\ wk[w].previous_clipboard_text # None
           /\ _looks_like_crystaldiskinfo_report(clipboard)
           /\ clipboard # wk[w].previous_clipboard_text
           /\ wk'[w].pc = "launch"
           /\ clipboard' = clipboard /\ file' = file)
             => CheckOutput(wk'[w], TRUE, TRUE) # None]_vars

\* C25: a text returned by a poll has passed the report-signature check and
\* yields at least one section, hence at least one record, so the failure
\* "no readable disk data" does not follow a poll that returned text.
C25_AcceptedTextHasSections ==
    \A w \in Slots :
       wk[w].output_text # None =>
          /\ _looks_like_crystaldiskinfo_report(wk[w].output_text)
          /\ _split_disk_sections(wk[w].output_text) # <<>>
          /\ _parse_crystaldiskinfo_entries(wk[w].output_text) # <<>>
          /\ wk[w].error # ErrNoData

\* C26: the parser returns exactly one record per section the splitter
\* found, in the same order; the label a header line gives a section is
\* never empty, so the name resolved for the record is never empty and no
\* section is dropped.
C26_OneRecordPerSection ==
    /\ call.fn = "_parse_crystaldiskinfo_entries" =>
          /\ Len(ret.entries) = Len(ret.sections)
          /\ \A k \in 1..Len(ret.sections) :
                /\ ret.sections[k].HeaderName # ""
                /\ ret.entries[k].FriendlyName # ""
                /\ ret.entries[k].Number = ret.sections[k].Number
    /\ (call.fn = "_split_disk_sections" /\ ret.header.opened) =>
          /\ ret.header.HeaderName # <<>>
          /\ ret.header.FriendlyName # <<>>
          /\ \E i \in 1..Len(ret.header.HeaderName) :
                ~IsSpace(ret.header.HeaderName[i])

\* a header line with whitespace after its label
C26_Witness ==
    /\ call.fn = "_split_disk_sections"
    /\ call.line = TNumbered \o TSp \o TA \o TSp \o TSp
    /\ ret.header.opened
    /\ ret.header.HeaderName = TA
    /\ ret.header.FriendlyName = TA

====
